---------------------------- MODULE Spec2Model ----------------------------
(***************************************************************************)
(* A model of main_publisher.py: the extraction of code fragments from a   *)
(* robot-release XML document, the collection of <reference>/<import>      *)
(* names from its raw text, and the assembly and saving of a CycloneDX     *)
(* SBOM.                                                                   *)
(*                                                                         *)
(* Text is a sequence of tokens.  A token is one character ("a", " ",      *)
(* "<", ...) or one markup tag ("<ns0:code>", "</reference>", ...).  A     *)
(* tag is one token because the regular expressions of the program only    *)
(* ever match whole tags, and a "<" of character data is escaped by        *)
(* ET.tostring, so no tag can start inside character data.                 *)
(***************************************************************************)
EXTENDS Integers, Sequences, FiniteSets, TLC

\* ------------------------------------------------------------------ bounds
\* Longest raw text (in tokens) given to extract_text_between_tags.
MaxText == 6
\* Longest (kind, name) list given to generate_sbom.
MaxLibs == 3
\* Documents of one stage: most code-like children and most language elements
\* of the stage.
MaxBlocks == 2
MaxLangElems == 1
\* Documents of several stages: most stages, most code elements of a stage.
MaxStages == 2
MaxStageBlocks == 1
\* Latest output operation (makedirs, open for writing, write) that may fail.
MaxIoOps == 8

\* ------------------------------------------------------------- text helpers
\* The characters str.strip() removes (those the model draws).
Whitespace == {" ", "\n", "\t"}

RECURSIVE LStrip(_)
LStrip(s) ==
    IF s # <<>> /\ Head(s) \in Whitespace THEN LStrip(Tail(s)) ELSE s

RECURSIVE RStrip(_)
RStrip(s) ==
    IF s # <<>> /\ s[Len(s)] \in Whitespace
    THEN RStrip(SubSeq(s, 1, Len(s) - 1))
    ELSE s

\* str.strip()
Strip(s) == RStrip(LStrip(s))

\* The least i >= pos with s[i] \in toks, or 0.
RECURSIVE IndexFrom(_, _, _)
IndexFrom(s, toks, pos) ==
    IF pos > Len(s) THEN 0
    ELSE IF s[pos] \in toks THEN pos
    ELSE IndexFrom(s, toks, pos + 1)

\* re.findall of  <open>(.*?)<close>  with re.DOTALL: scanning from pos, the
\* leftmost opening tag that has a closing tag after it is matched with the
\* nearest such closing tag; the scan resumes after the match.
RECURSIVE FindAllDotAll(_, _, _, _)
FindAllDotAll(s, open, close, pos) ==
    IF pos > Len(s) THEN <<>>
    ELSE IF s[pos] \in open
         THEN LET c == IndexFrom(s, close, pos + 1)
              IN  IF c = 0
                  THEN FindAllDotAll(s, open, close, pos + 1)
                  ELSE <<SubSeq(s, pos + 1, c - 1)>>
                           \o FindAllDotAll(s, open, close, c + 1)
         ELSE FindAllDotAll(s, open, close, pos + 1)

\* re.search of  <open>(.*?)<close>  without re.DOTALL: "." does not match a
\* newline, so an opening tag whose nearest closing tag lies beyond a newline
\* does not match, and the search goes on to the right.  <<FALSE, <<>>>> when
\* there is no match, else <<TRUE, group 1>>.
RECURSIVE SearchNoDotAll(_, _, _, _)
SearchNoDotAll(s, open, close, pos) ==
    IF pos > Len(s) THEN <<FALSE, <<>>>>
    ELSE IF s[pos] \in open
         THEN LET c == IndexFrom(s, close \cup {"\n"}, pos + 1)
              IN  IF c # 0 /\ s[c] \in close
                  THEN <<TRUE, SubSeq(s, pos + 1, c - 1)>>
                  ELSE SearchNoDotAll(s, open, close, pos + 1)
         ELSE SearchNoDotAll(s, open, close, pos + 1)

\* ------------------------------------------------- extract_text_between_tags
\* The tokens of a raw text.
RawTokens == {"<reference>", "</reference>", "<import>", "</import>", "a", " "}

RECURSIVE SeqsUpTo(_, _)
SeqsUpTo(S, n) ==
    IF n = 0 THEN {<<>>}
    ELSE LET shorter == SeqsUpTo(S, n - 1)
         IN  shorter \cup {Append(t, x) : t \in {u \in shorter : Len(u) = n - 1}, x \in S}

\* [(kind, match.strip()) for match in pattern.findall(content)]
TagMatches(kind, content) ==
    LET found == FindAllDotAll(content, {"<" \o kind \o ">"}, {"</" \o kind \o ">"}, 1)
    IN  [i \in 1..Len(found) |-> <<kind, Strip(found[i])>>]

\* A variant that returns the imports before the references.
ImportsFirst(content) ==
    TagMatches("import", content) \o TagMatches("reference", content)

\* The value extract_text_between_tags returns for a file of this content.
ExtractTextBetweenTags(content) ==
    TagMatches("reference", content) \o TagMatches("import", content)


\* ------------------------------------------------------------- generate_sbom
Kinds == {"reference", "import"}
\* Library names given to generate_sbom (the empty name is what
\* <reference></reference> gives).
LibNames == {<<"a">>, <<"b">>, <<>>}

\* The values str(uuid.uuid4()) can give: as many as generate_sbom can need.
UUIDs == {"uuid-" \o ToString(k) : k \in 1..MaxLibs}

\* A variant that generates the identifier once, before the loop.
Uuid4Once(drawn) == {"uuid-1"}

\* str(uuid.uuid4()): a random 122-bit value.  Two draws agree with
\* probability 2^-122; the model takes a draw to differ from those before it.
Uuid4(drawn) == UUIDs \ drawn

\* The component dict built for one library name.
Component(ref, lib_name) ==
    ("bom-ref" :> ref) @@ ("name" :> lib_name) @@ ("version" :> "unknown")
        @@ ("purl" :> (<<"pkg:generic/">> \o lib_name \o <<"@unknown">>))
        @@ ("hashes" :> <<>>) @@ ("licenses" :> <<>>)
        @@ ("supplier" :> [name |-> "unknown"])

\* The SBOM dict wrapped around the components.
Sbom(comps) ==
    ("bomFormat" :> "CycloneDX") @@ ("specVersion" :> "1.4") @@ ("version" :> 1)
        @@ ("components" :> comps)

\* A variant that forgets to record the name.
AddUniqueForgotten(unique, lib_name) == unique

\* unique_libraries.add(lib_name)
AddUnique(unique, lib_name) == unique \cup {lib_name}

\* ------------------------------------------------------ the release document
\* stage.get('name', ...) of a stage without the attribute.
NoAttr == "<no name attribute>"
StageNames == {NoAttr, "Main"}

\* Character data of code elements: plain, padded with whitespace, empty, and
\* a character ET.tostring escapes between whitespace.
CodeTexts == {<<"A">>, <<" ", "B", "\n">>, <<>>}
Escaped == <<" ", "<", "\n">>

\* The children of a stage the patterns can meet: elements named code,
\* language or codeblock, in the process namespace or in another one.
ProcessNs == "http://www.robotvendor.com/product/process"
OtherNs == "urn:other"
Elem(ns, tag, text) == [ns |-> ns, tag |-> tag, text |-> text]
CodeElem(text) == Elem(ProcessNs, "code", text)
CodeElems ==
    {CodeElem(t) : t \in CodeTexts}
        \cup {Elem(ProcessNs, "codeblock", <<"A">>), Elem(OtherNs, "code", <<"A">>)}
LangElem(text) == Elem(ProcessNs, "language", text)

Stage(name, langs, blocks) ==
    [name |-> name, children |-> [i \in 1..Len(langs) |-> LangElem(langs[i])] \o blocks]

\* Where a stage starts relative to the stage before it: in the same process,
\* in a new process of the same object, in a new object of the same contents,
\* or in a new contents element.
Levels == {"stage", "process", "object", "contents"}

\* A document is the sequence of its contents elements; a contents element the
\* sequence of its objects; an object the sequence of its processes; a process
\* the sequence of its stages.
AddStage(d, s, lvl) ==
    IF lvl = "contents" \/ d = <<>> THEN Append(d, << << <<s>> >> >>)
    ELSE LET c == d[Len(d)]
             o == c[Len(c)]
             p == o[Len(o)]
         IN  CASE lvl = "object"  -> [d EXCEPT ![Len(d)] = Append(c, << <<s>> >>)]
               [] lvl = "process" -> [d EXCEPT ![Len(d)][Len(c)] = Append(o, <<s>>)]
               [] lvl = "stage"   -> [d EXCEPT ![Len(d)][Len(c)][Len(o)] = Append(p, s)]

RECURSIVE DocsOfLen(_, _, _)
DocsOfLen(stages, n, levels) ==
    IF n = 0 THEN {<<>>}
    ELSE IF n = 1 THEN {AddStage(<<>>, s, "contents") : s \in stages}
    ELSE {AddStage(d, s, l) : d \in DocsOfLen(stages, n - 1, levels), s \in stages,
                              l \in levels}

\* The documents of up to n stages drawn from `stages`, a stage after the
\* first starting at one of `levels`.
DocsUpTo(stages, n, levels) == UNION {DocsOfLen(stages, k, levels) : k \in 0..n}

\* Concatenation of a sequence of sequences.
RECURSIVE Concat(_)
Concat(ss) == IF ss = <<>> THEN <<>> ELSE Head(ss) \o Concat(Tail(ss))

\* The stages in the order the four nested for loops visit them.
StagesInOrder(d) ==
    Concat([c \in 1..Len(d) |->
        Concat([o \in 1..Len(d[c]) |->
            Concat([p \in 1..Len(d[c][o]) |-> d[c][o][p]])])])

\* ET.tostring: character data with "&", "<" and ">" escaped.
EscapeChar(ch) ==
    CASE ch = "&" -> <<"&", "a", "m", "p", ";">>
      [] ch = "<" -> <<"&", "l", "t", ";">>
      [] ch = ">" -> <<"&", "g", "t", ";">>
      [] OTHER    -> <<ch>>
EscapeCdata(text) == Concat([i \in 1..Len(text) |-> EscapeChar(text[i])])

\* ET.tostring gives the namespace of the serialised element (the stage, in the
\* process namespace) the prefix ns0 and the next namespace it meets ns1.
Prefix(ns) == IF ns = ProcessNs THEN "ns0" ELSE "ns1"

\* ET.tostring of one child: an element without text is written <tag />.
SerializeElem(e) ==
    LET q == Prefix(e.ns) \o ":" \o e.tag
    IN  IF e.text = <<>>
        THEN << "<" \o q \o " />" >>
        ELSE << "<" \o q \o ">" >> \o EscapeCdata(e.text) \o << "</" \o q \o ">" >>

\* ET.tostring(stage, encoding='unicode'), attributes left out.
Serialize(stage) ==
    <<"<ns0:stage>">>
        \o Concat([i \in 1..Len(stage.children) |-> SerializeElem(stage.children[i])])
        \o <<"</ns0:stage>">>

\* The tags of the model that  <ns0:code[^>]*>  matches.
CodeOpenTags == {"<ns0:code>", "<ns0:code />", "<ns0:codeblock>", "<ns0:codeblock />"}

\* re.findall(r'<ns0:code[^>]*>(.*?)</ns0:code>', ..., re.DOTALL)
CodeBlocks(stage) == FindAllDotAll(Serialize(stage), CodeOpenTags, {"</ns0:code>"}, 1)

\* language_match.group(1) if language_match else 'unknown'
Language(stage) ==
    LET m == SearchNoDotAll(Serialize(stage), {"<ns0:language>"}, {"</ns0:language>"}, 1)
    IN  IF m[1] THEN m[2] ELSE <<"u", "n", "k", "n", "o", "w", "n">>

\* str.lower() on the letters the model draws.
UpperLetters == <<"C", "S", "H", "A", "R", "P", "O", "W", "E", "L", "V", "I", "U", "B">>
LowerLetters == <<"c", "s", "h", "a", "r", "p", "o", "w", "e", "l", "v", "i", "u", "b">>
LowerChar(ch) ==
    IF \E k \in 1..Len(UpperLetters) : UpperLetters[k] = ch
    THEN LowerLetters[CHOOSE k \in 1..Len(UpperLetters) : UpperLetters[k] = ch]
    ELSE ch
Lower(s) == [i \in 1..Len(s) |-> LowerChar(s[i])]

\* A variant of the lookup that does not lower-case the language.
ExtensionCaseSensitive(language) ==
    CASE language = <<"c", "s", "h", "a", "r", "p">> -> "cs"
      [] language = <<"p", "o", "w", "e", "r", "s", "h", "e", "l", "l">> -> "ps1"
      [] language = <<"v", "i", "s", "u", "a", "l", "b", "a", "s", "i", "c">> -> "vb"
      [] OTHER -> "txt"

\* extension_map.get(language.lower(), 'txt')
Extension(language) ==
    LET l == Lower(language)
    IN  CASE l = <<"c", "s", "h", "a", "r", "p">> -> "cs"
          [] l = <<"p", "o", "w", "e", "r", "s", "h", "e", "l", "l">> -> "ps1"
          [] l = <<"v", "i", "s", "u", "a", "l", "b", "a", "s", "i", "c">> -> "vb"
          [] OTHER -> "txt"

\* A variant that formats the missing attribute as str(None).
StageNameNoDefault(stage) == IF stage.name = NoAttr THEN "None" ELSE stage.name

\* stage.get('name', 'UnnamedStage')
StageName(stage) == IF stage.name = NoAttr THEN "UnnamedStage" ELSE stage.name

\* f"{stage_name}_{idx}.{file_extension}"
FileName(stage_name, idx, file_extension) ==
    stage_name \o "_" \o ToString(idx) \o "." \o file_extension


\* ------------------------------------------------------------------- state
VARIABLES
    doc,              \* the parsed release document (the tree ET.parse gives)
    rawText,          \* the same file read as text
    inputState,       \* "ok", "missing", "malformed", "not_utf8" (parses, but is not UTF-8)
    ioFail,           \* the output operation that will fail, counted down; 0: none
    dirExists,        \* whether output_dir exists
    fs,               \* the files of output_dir: name -> content
    handles,          \* the file handles that are open
    pc,               \* the position of the run
    exc,              \* an exception is propagating out of a with block
    run,              \* which call of extract_code_from_robot_release this is
    si,               \* position of the stage loops in the traversal order
    stage_name, code_blocks, language, file_extension, idx,
    content,          \* what file.read() returned
    libraries, li, unique_libraries, components, sbom,
    steps,            \* history: the steps of main started so far
    log,              \* history: the completed writes, in order, each with the
                      \* stage and the index of the block written
    fs1               \* history: the files after the first extraction

vars == <<doc, rawText, inputState, ioFail, dirExists, fs, handles, pc, exc, run, si,
          stage_name, code_blocks, language, file_extension, idx, content,
          libraries, li, unique_libraries, components, sbom, steps, log, fs1>>

extractLocals == <<si, stage_name, code_blocks, language, file_extension, idx>>
sbomLocals == <<libraries, li, unique_libraries, components, sbom>>
inputs == <<doc, rawText, inputState>>

EmptyFs == [f \in {} |-> <<>>]

\* The next output operation fails.
IoFails == ioFail = 1
IoCount == IF ioFail = 0 THEN 0 ELSE ioFail - 1

\* A variant that opens with mode 'a': a file that exists keeps its content.
OpenedForAppend(files, name) ==
    IF name \in DOMAIN files THEN files ELSE (name :> <<>>) @@ files

\* open(path, 'w') creates the file or truncates it.
Truncated(files, name) == (name :> <<>>) @@ files

\* file.write(text): the text goes after what the open file holds, which is
\* nothing after open(path, 'w').
Written(files, name, text) == (name :> (files[name] \o text)) @@ files

\* A variant of main that catches the exception of a step and goes on.
RaiseSwallowed(step) ==
    CASE step = "extract"  -> "collect"
      [] step = "collect"  -> "generate"
      [] step = "generate" -> "save"
      [] step = "save"     -> "done"

\* An exception raised in a step is caught nowhere: main ends with it.
Raise(step) == "failed"

\* The calls of main, in order: where the run is after a step has returned.
MainNext(step) ==
    CASE step = "extract"  -> "collect"
      [] step = "collect"  -> "generate"
      [] step = "generate" -> "save"
      [] step = "save"     -> "done"

\* A variant of the end of a with block that keeps the handle on an error.
ReleasedUnlessRaised(hs, path, raised) ==
    IF raised THEN hs ELSE {h \in hs : h.path # path}

\* The end of a with block: the file is closed, on an error too.
Released(hs, path, raised) == {h \in hs : h.path # path}

Handle(path, mode) == [path |-> path, mode |-> mode]

\* ------------------------------------------- extract_code_from_robot_release
\* os.makedirs(output_dir, exist_ok=True)
extract_makedirs ==
    /\ pc = "extract"
    /\ steps' = Append(steps, "extract")
    /\ ioFail' = IoCount
    /\ IF IoFails
       THEN pc' = Raise("extract") /\ UNCHANGED dirExists
       ELSE pc' = "parse" /\ dirExists' = TRUE
    /\ UNCHANGED <<inputs, fs, handles, exc, run, extractLocals, content, sbomLocals, log, fs1>>

\* tree = ET.parse(file_path): a missing or malformed file raises.
extract_parse ==
    /\ pc = "parse"
    /\ IF inputState \in {"missing", "malformed"}
       THEN pc' = Raise("extract") /\ UNCHANGED si
       ELSE pc' = "stage" /\ si' = 1
    /\ UNCHANGED <<inputs, ioFail, dirExists, fs, handles, exc, run, stage_name,
                   code_blocks, language, file_extension, idx, content, sbomLocals,
                   steps, log, fs1>>

\* The head of the stage loops and the body up to the loop over code_blocks.
\* A stage without code blocks is followed at once by the next stage.
extract_stage ==
    /\ pc = "stage"
    /\ LET stages == StagesInOrder(doc)
       IN  IF si > Len(stages)
           THEN /\ pc' = MainNext("extract")
                /\ UNCHANGED extractLocals
           ELSE LET stage == stages[si]
                    blocks == CodeBlocks(stage)
                    lang == Language(stage)
                IN  /\ stage_name' = StageName(stage)
                    /\ code_blocks' = blocks
                    /\ language' = lang
                    /\ file_extension' = Extension(lang)
                    /\ idx' = 1
                    /\ IF blocks = <<>>
                       THEN pc' = "stage" /\ si' = si + 1
                       ELSE pc' = "open_code" /\ si' = si
    /\ UNCHANGED <<inputs, ioFail, dirExists, fs, handles, exc, run, content,
                   sbomLocals, steps, log, fs1>>

\* with open(full_path, 'w', encoding='utf-8') as code_file:
extract_open ==
    /\ pc = "open_code"
    /\ LET file_name == FileName(stage_name, idx, file_extension)
       IN  /\ ioFail' = IoCount
           /\ IF IoFails
              THEN pc' = Raise("extract") /\ UNCHANGED <<fs, handles>>
              ELSE /\ pc' = "write_code"
                   /\ fs' = Truncated(fs, file_name)
                   /\ handles' = handles \cup {Handle(file_name, "w")}
    /\ UNCHANGED <<inputs, dirExists, exc, run, extractLocals, content, sbomLocals,
                   steps, log, fs1>>

\* code_file.write(code.strip())
extract_write ==
    /\ pc = "write_code"
    /\ LET file_name == FileName(stage_name, idx, file_extension)
           text == Strip(code_blocks[idx])
       IN  /\ ioFail' = IoCount
           /\ pc' = "exit_code"
           /\ IF IoFails
              THEN exc' = TRUE /\ UNCHANGED <<fs, log>>
              ELSE /\ exc' = FALSE
                   /\ fs' = Written(fs, file_name, text)
                   /\ log' = Append(log, [name |-> file_name, text |-> text,
                                          stage |-> si, idx |-> idx])
    /\ UNCHANGED <<inputs, dirExists, handles, run, extractLocals, content, sbomLocals,
                   steps, fs1>>

\* The end of the with block, and the step of the loops that follows it.
extract_exit ==
    /\ pc = "exit_code"
    /\ handles' = Released(handles, FileName(stage_name, idx, file_extension), exc)
    /\ IF exc
       THEN pc' = Raise("extract") /\ UNCHANGED <<si, idx>>
       ELSE IF idx < Len(code_blocks)
            THEN pc' = "open_code" /\ idx' = idx + 1 /\ si' = si
            ELSE pc' = "stage" /\ si' = si + 1 /\ idx' = idx
    /\ exc' = FALSE
    /\ UNCHANGED <<inputs, ioFail, dirExists, fs, run, stage_name, code_blocks,
                   language, file_extension, content, sbomLocals, steps, log, fs1>>

\* A second call with the same arguments, after the first has returned.
extract_again ==
    /\ pc = "collect"
    /\ run = 1
    /\ run' = 2
    /\ fs1' = fs
    /\ pc' = "extract"
    /\ UNCHANGED <<inputs, ioFail, dirExists, fs, handles, exc, extractLocals, content,
                   sbomLocals, steps, log>>

\* ------------------------------------------------- extract_text_between_tags
InputPath == "path/to/your/robotrelease.xml"

\* with open(file_path, 'r', encoding='utf-8') as file:
collect_open ==
    /\ pc = "collect"
    /\ steps' = Append(steps, "collect")
    /\ IF inputState = "missing"
       THEN pc' = Raise("collect") /\ UNCHANGED handles
       ELSE pc' = "read_input" /\ handles' = handles \cup {Handle(InputPath, "r")}
    /\ UNCHANGED <<inputs, ioFail, dirExists, fs, exc, run, extractLocals, content,
                   sbomLocals, log, fs1>>

\* content = file.read(): bytes that are not UTF-8 raise.
collect_read ==
    /\ pc = "read_input"
    /\ pc' = "exit_input"
    /\ IF inputState = "not_utf8"
       THEN exc' = TRUE /\ UNCHANGED content
       ELSE exc' = FALSE /\ content' = rawText
    /\ UNCHANGED <<inputs, ioFail, dirExists, fs, handles, run, extractLocals,
                   sbomLocals, steps, log, fs1>>

\* The end of the with block.
collect_exit ==
    /\ pc = "exit_input"
    /\ handles' = Released(handles, InputPath, exc)
    /\ pc' = IF exc THEN Raise("collect") ELSE "match"
    /\ exc' = FALSE
    /\ UNCHANGED <<inputs, ioFail, dirExists, fs, run, extractLocals, content,
                   sbomLocals, steps, log, fs1>>

\* The two findall calls and the returned list, bound to libraries in main.
collect_match ==
    /\ pc = "match"
    /\ libraries' = ExtractTextBetweenTags(content)
    /\ pc' = MainNext("collect")
    /\ UNCHANGED <<inputs, ioFail, dirExists, fs, handles, exc, run, extractLocals,
                   content, li, unique_libraries, components, sbom, steps, log, fs1>>

\* ------------------------------------------------------------- generate_sbom
\* components = []; unique_libraries = set()
generate_begin ==
    /\ pc = "generate"
    /\ steps' = Append(steps, "generate")
    /\ components' = <<>>
    /\ unique_libraries' = {}
    /\ li' = 1
    /\ pc' = "generate_loop"
    /\ UNCHANGED <<inputs, ioFail, dirExists, fs, handles, exc, run, extractLocals,
                   content, libraries, sbom, log, fs1>>

\* One iteration of  for lib_type, lib_name in libraries.
generate_step ==
    /\ pc = "generate_loop"
    /\ li <= Len(libraries)
    /\ LET lib_name == libraries[li][2]
       IN  IF lib_name \notin unique_libraries
           THEN /\ unique_libraries' = AddUnique(unique_libraries, lib_name)
                /\ \E ref \in Uuid4({components[k]["bom-ref"] : k \in 1..Len(components)}) :
                       components' = Append(components, Component(ref, lib_name))
           ELSE UNCHANGED <<unique_libraries, components>>
    /\ li' = li + 1
    /\ UNCHANGED <<inputs, ioFail, dirExists, fs, handles, pc, exc, run, extractLocals,
                   content, libraries, sbom, steps, log, fs1>>

\* sbom = {...}; return sbom
generate_return ==
    /\ pc = "generate_loop"
    /\ li > Len(libraries)
    /\ sbom' = Sbom(components)
    /\ pc' = MainNext("generate")
    /\ UNCHANGED <<inputs, ioFail, dirExists, fs, handles, exc, run, extractLocals,
                   content, libraries, li, unique_libraries, components, steps, log, fs1>>

\* --------------------------------------------------------- save_sbom_to_file
SbomFile == "sbom.json"
\* json.dump(sbom, f, indent=4): the text of the file is the JSON of the dict.
JsonDump(d) == <<[json |-> d]>>

\* os.makedirs(output_dir, exist_ok=True)
save_makedirs ==
    /\ pc = "save"
    /\ steps' = Append(steps, "save")
    /\ ioFail' = IoCount
    /\ IF IoFails
       THEN pc' = Raise("save") /\ UNCHANGED dirExists
       ELSE pc' = "open_sbom" /\ dirExists' = TRUE
    /\ UNCHANGED <<inputs, fs, handles, exc, run, extractLocals, content, sbomLocals,
                   log, fs1>>

\* with open(output_path, 'w', encoding='utf-8') as f:
save_open ==
    /\ pc = "open_sbom"
    /\ ioFail' = IoCount
    /\ IF IoFails
       THEN pc' = Raise("save") /\ UNCHANGED <<fs, handles>>
       ELSE /\ pc' = "dump_sbom"
            /\ fs' = Truncated(fs, SbomFile)
            /\ handles' = handles \cup {Handle(SbomFile, "w")}
    /\ UNCHANGED <<inputs, dirExists, exc, run, extractLocals, content, sbomLocals,
                   steps, log, fs1>>

\* json.dump(sbom, f, indent=4)
save_dump ==
    /\ pc = "dump_sbom"
    /\ ioFail' = IoCount
    /\ pc' = "exit_sbom"
    /\ IF IoFails
       THEN exc' = TRUE /\ UNCHANGED <<fs, log>>
       ELSE /\ exc' = FALSE
            /\ fs' = Written(fs, SbomFile, JsonDump(sbom))
            /\ log' = Append(log, [name |-> SbomFile, text |-> JsonDump(sbom),
                                   stage |-> 0, idx |-> 0])
    /\ UNCHANGED <<inputs, dirExists, handles, run, extractLocals, content, sbomLocals,
                   steps, fs1>>

\* The end of the with block; main returns.
save_exit ==
    /\ pc = "exit_sbom"
    /\ handles' = Released(handles, SbomFile, exc)
    /\ pc' = IF exc THEN Raise("save") ELSE MainNext("save")
    /\ exc' = FALSE
    /\ UNCHANGED <<inputs, ioFail, dirExists, fs, run, extractLocals, content,
                   sbomLocals, steps, log, fs1>>

\* ------------------------------------------------------------ specifications
InitLocals ==
    /\ handles = {} /\ exc = FALSE /\ run = 1
    /\ si = 0 /\ stage_name = "" /\ code_blocks = <<>> /\ language = <<>>
    /\ file_extension = "" /\ idx = 0 /\ content = <<>>
    /\ li = 0 /\ unique_libraries = {} /\ components = <<>> /\ sbom = Sbom(<<>>)
    /\ steps = <<>> /\ log = <<>> /\ fs1 = EmptyFs

\* What output_dir holds before the run: it does not exist, it is empty, or it
\* holds a file the run derives too and one it does not.
OldFiles == ("Main_1.cs" :> <<"o", "l", "d">>) @@ ("keep.txt" :> <<"k">>)
InitialDirs == {<<FALSE, EmptyFs>>, <<TRUE, EmptyFs>>, <<TRUE, OldFiles>>}

CSharp == <<"C", "S", "h", "a", "r", "p">>
\* Declared languages: the three of extension_map in several cases, another
\* language, one padded with a blank and one that ends with a newline.
LangTexts ==
    { <<"c", "s", "h", "a", "r", "p">>, CSharp,
      <<"P", "o", "w", "e", "r", "S", "H", "E", "L", "L">>,
      <<"V", "i", "s", "u", "a", "l", "B", "a", "s", "i", "c">>,
      <<"v", "b">>, <<" ", "c", "s", "h", "a", "r", "p">>,
      <<"c", "s", "h", "a", "r", "p", "\n">> }

\* Documents of one stage: every language, every list of code-like children.
OneStages ==
    {Stage(n, l, b) : n \in StageNames, l \in SeqsUpTo(LangTexts, MaxLangElems),
                      b \in SeqsUpTo(CodeElems, MaxBlocks)}

\* Documents of several stages: a stage without name and language or a stage
\* Main in CSharp, with code blocks or without.
PlainCode == {CodeElem(<<"A">>), CodeElem(Escaped)}
ManyStages ==
    {Stage(NoAttr, <<>>, b) : b \in SeqsUpTo(PlainCode, MaxStageBlocks)}
        \cup {Stage("Main", <<CSharp>>, b) : b \in SeqsUpTo(PlainCode, MaxStageBlocks)}
TwiceStages ==
    {Stage("Main", <<CSharp>>, b) : b \in SeqsUpTo(PlainCode, MaxStageBlocks)}
MainStages ==
    {Stage(n, <<CSharp>>, b) : n \in StageNames,
                               b \in SeqsUpTo({CodeElem(<<" ", "B", "\n">>)}, MaxStageBlocks)}

NextExtract ==
    \/ extract_makedirs
    \/ extract_parse
    \/ extract_stage
    \/ extract_open
    \/ extract_write
    \/ extract_exit

\* extract_code_from_robot_release on the documents of one stage, with a
\* readable input and a writable output directory.
InitOne ==
    /\ doc \in DocsUpTo(OneStages, 1, Levels)
    /\ rawText = <<>> /\ inputState = "ok" /\ ioFail = 0
    /\ dirExists = TRUE /\ fs = OldFiles
    /\ pc = "extract" /\ libraries = <<>>
    /\ InitLocals

SpecOne == InitOne /\ [][NextExtract]_vars

\* The same on the documents of up to MaxStages stages.
InitExtract ==
    /\ doc \in DocsUpTo(ManyStages, MaxStages, Levels)
    /\ rawText = <<>> /\ inputState = "ok" /\ ioFail = 0
    /\ dirExists = TRUE /\ fs = OldFiles
    /\ pc = "extract" /\ libraries = <<>>
    /\ InitLocals

SpecExtract == InitExtract /\ [][NextExtract]_vars

\* Two calls in a row, from every initial output directory.
InitTwice ==
    /\ doc \in DocsUpTo(TwiceStages, MaxStages, Levels)
    /\ rawText = <<>> /\ inputState = "ok" /\ ioFail = 0
    /\ \E d \in InitialDirs : dirExists = d[1] /\ fs = d[2]
    /\ pc = "extract" /\ libraries = <<>>
    /\ InitLocals

NextTwice == NextExtract \/ extract_again

SpecTwice == InitTwice /\ [][NextTwice]_vars

\* extract_text_between_tags on every raw text of the bounds.
InitTags ==
    /\ rawText \in SeqsUpTo(RawTokens, MaxText)
    /\ doc = <<>> /\ inputState = "ok" /\ ioFail = 0
    /\ dirExists = FALSE /\ fs = EmptyFs
    /\ pc = "collect" /\ libraries = <<>>
    /\ InitLocals

NextTags ==
    \/ collect_open
    \/ collect_read
    \/ collect_exit
    \/ collect_match

SpecTags == InitTags /\ [][NextTags]_vars

\* generate_sbom on every (kind, name) list of the bounds.
InitSbom ==
    /\ libraries \in SeqsUpTo(Kinds \X LibNames, MaxLibs)
    /\ doc = <<>> /\ rawText = <<>> /\ inputState = "ok" /\ ioFail = 0
    /\ dirExists = FALSE /\ fs = EmptyFs
    /\ pc = "generate"
    /\ InitLocals

NextSbom ==
    \/ generate_begin
    \/ generate_step
    \/ generate_return

SpecSbom == InitSbom /\ [][NextSbom]_vars

\* main: every step, with an input that is missing, malformed, not UTF-8 or
\* fine, and with any one output operation failing or none.
MainTexts ==
    { <<>>,
      <<"<reference>", "a", "</reference>", "<import>", " ", "</import>",
        "<reference>", "a", " ", "</reference>">> }

Init ==
    /\ inputState \in {"ok", "missing", "malformed", "not_utf8"}
    /\ doc \in IF inputState \in {"missing", "malformed"}
               THEN {<<>>}
               ELSE DocsUpTo(MainStages, MaxStages, {"stage", "contents"})
    /\ rawText \in IF inputState = "ok" THEN MainTexts ELSE {<<>>}
    /\ ioFail \in 0..MaxIoOps
    /\ \E d \in {<<FALSE, EmptyFs>>, <<TRUE, OldFiles>>} : dirExists = d[1] /\ fs = d[2]
    /\ pc = "extract" /\ libraries = <<>>
    /\ InitLocals

Next ==
    \/ NextExtract
    \/ NextTags
    \/ NextSbom
    \/ save_makedirs
    \/ save_open
    \/ save_dump
    \/ save_exit

Spec == Init /\ [][Next]_vars

\* -------------------------------------------------------------------- claims
\* The names of a (kind, name) list, and where a name first occurs in it.
NamesOf(libs) == {libs[i][2] : i \in 1..Len(libs)}
FirstIndex(libs, n) ==
    CHOOSE i \in 1..Len(libs) : libs[i][2] = n /\ \A j \in 1..(i - 1) : libs[j][2] # n

\* C1: when generate_sbom has returned, the components list holds exactly one
\* component per distinct name of the input (whatever the kinds), and the
\* component names are in the order in which the names first occur in the input.
C1_OnePerNameInFirstSeenOrder ==
    pc = "save" =>
        LET comps == sbom["components"]
        IN  /\ Len(comps) = Cardinality(NamesOf(libraries))
            /\ {comps[i]["name"] : i \in 1..Len(comps)} = NamesOf(libraries)
            /\ \A i, j \in 1..Len(comps) :
                   i < j => FirstIndex(libraries, comps[i]["name"])
                                < FirstIndex(libraries, comps[j]["name"])

\* A name given twice, with two kinds, around another name: two components.
C1_Witness ==
    /\ pc = "save"
    /\ Len(libraries) = 3
    /\ libraries[1][2] = libraries[3][2]
    /\ libraries[1][1] # libraries[3][1]
    /\ libraries[2][2] # libraries[1][2]
    /\ Len(sbom["components"]) = 2
    /\ sbom["components"][1]["name"] = libraries[1][2]

\* C7: the document generate_sbom returns has exactly the keys bomFormat
\* ('CycloneDX'), specVersion ('1.4'), version (1) and components; every
\* component has a non-empty bom-ref that no other component of the document
\* has, the name of a library of the input, version 'unknown', the purl
\* 'pkg:generic/<name>@unknown' of that name, empty hashes and licenses and
\* the supplier name 'unknown'.
C7_SbomShape ==
    pc = "save" =>
        /\ DOMAIN sbom = {"bomFormat", "specVersion", "version", "components"}
        /\ sbom["bomFormat"] = "CycloneDX"
        /\ sbom["specVersion"] = "1.4"
        /\ sbom["version"] = 1
        /\ \A i \in 1..Len(sbom["components"]) :
               LET c == sbom["components"][i]
               IN  /\ DOMAIN c = {"bom-ref", "name", "version", "purl", "hashes",
                                  "licenses", "supplier"}
                   /\ c["bom-ref"] # ""
                   /\ \A j \in 1..Len(sbom["components"]) :
                          j # i => sbom["components"][j]["bom-ref"] # c["bom-ref"]
                   /\ c["name"] \in NamesOf(libraries)
                   /\ c["version"] = "unknown"
                   /\ Len(c["purl"]) = Len(c["name"]) + 2
                   /\ c["purl"][1] = "pkg:generic/"
                   /\ SubSeq(c["purl"], 2, Len(c["name"]) + 1) = c["name"]
                   /\ c["purl"][Len(c["purl"])] = "@unknown"
                   /\ c["hashes"] = <<>>
                   /\ c["licenses"] = <<>>
                   /\ c["supplier"] = [name |-> "unknown"]

\* A document of three components.
C7_Witness ==
    /\ pc = "save"
    /\ Len(sbom["components"]) = 3
    /\ sbom["components"][2]["name"] = <<"a">>
    /\ sbom["components"][2]["purl"] = <<"pkg:generic/", "a", "@unknown">>

\* The opening tags of a text at which a match of <kind>(.*?)</kind> starts: a
\* closing tag follows, and every earlier opening tag is closed before this one.
MatchStarts(s, kind) ==
    {o \in 1..Len(s) :
        /\ s[o] = "<" \o kind \o ">"
        /\ \E c \in (o + 1)..Len(s) : s[c] = "</" \o kind \o ">"
        /\ \A o2 \in 1..(o - 1) :
               s[o2] = "<" \o kind \o ">"
                   => \E c2 \in (o2 + 1)..(o - 1) : s[c2] = "</" \o kind \o ">"}

\* What lies between an opening tag and the nearest closing tag after it.
Between(s, kind, o) ==
    LET c == CHOOSE c \in (o + 1)..Len(s) :
                 /\ s[c] = "</" \o kind \o ">"
                 /\ \A d \in (o + 1)..(c - 1) : s[d] # "</" \o kind \o ">"
    IN  SubSeq(s, o + 1, c - 1)

\* name is text without its leading and trailing whitespace.
IsTrimOf(name, text) ==
    /\ name = <<>> \/ (name[1] \notin Whitespace /\ name[Len(name)] \notin Whitespace)
    /\ \E a \in 0..Len(text) : \E b \in 0..(Len(text) - a) :
           /\ name = SubSeq(text, a + 1, Len(text) - b)
           /\ \A i \in 1..a : text[i] \in Whitespace
           /\ \A i \in (Len(text) - b + 1)..Len(text) : text[i] \in Whitespace

\* The i-th least element of a set of numbers.
Nth(S, i) == CHOOSE x \in S : Cardinality({y \in S : y < x}) = i - 1

\* C2: the list extract_text_between_tags returns holds the reference pairs
\* before the import pairs; the pairs of each kind are the matches of that kind
\* in document order, one pair per match (repeated names included, so the
\* length is the number of reference matches plus that of import matches);
\* every name is the matched text without leading and trailing whitespace.
C2_ReferencesThenImports ==
    pc = "generate" =>
        LET refs == MatchStarts(rawText, "reference")
            imps == MatchStarts(rawText, "import")
            nr == Cardinality(refs)
            ni == Cardinality(imps)
        IN  /\ Len(libraries) = nr + ni
            /\ \A i \in 1..nr :
                   /\ libraries[i][1] = "reference"
                   /\ IsTrimOf(libraries[i][2], Between(rawText, "reference", Nth(refs, i)))
            /\ \A i \in 1..ni :
                   /\ libraries[nr + i][1] = "import"
                   /\ IsTrimOf(libraries[nr + i][2], Between(rawText, "import", Nth(imps, i)))

\* A text whose import comes before its two references, which have the same
\* name: the list holds the two references, then the import.
C2_Witness ==
    /\ pc = "generate"
    /\ Len(libraries) = 3
    /\ rawText[1] = "<import>"
    /\ libraries[1] = libraries[2]
    /\ libraries[1][1] = "reference"
    /\ libraries[3][1] = "import"

\* The stages of the document, and the one whose name, language and extension
\* the run holds (0 before the first).
Stages == StagesInOrder(doc)
Processed ==
    IF pc \in {"open_code", "write_code", "exit_code"} THEN si
    ELSE IF pc \in {"stage", "collect"} /\ si >= 1 THEN si - 1
    ELSE 0

\* The texts of the children of a stage that are elements `tag` of the process
\* namespace, in document order.
RECURSIVE TextsOf(_, _)
TextsOf(children, tag) ==
    IF children = <<>> THEN <<>>
    ELSE LET rest == TextsOf(Tail(children), tag)
             e == Head(children)
         IN  IF e.tag = tag /\ e.ns = ProcessNs THEN <<e.text>> \o rest ELSE rest
DeclaredLanguages(stage) == TextsOf(stage.children, "language")
SourceBlocks(stage) == TextsOf(stage.children, "code")

\* Two texts are equal when the case of letters is ignored.
SameLetter(x, y) ==
    x = y \/ \E k \in 1..Len(UpperLetters) : {x, y} = {UpperLetters[k], LowerLetters[k]}
EqIgnoreCase(a, b) == Len(a) = Len(b) /\ \A i \in 1..Len(a) : SameLetter(a[i], b[i])

\* The extension the mapping gives a declared language.
MappedExtension(decl) ==
    IF EqIgnoreCase(decl, <<"c", "s", "h", "a", "r", "p">>) THEN "cs"
    ELSE IF EqIgnoreCase(decl, <<"p", "o", "w", "e", "r", "s", "h", "e", "l", "l">>) THEN "ps1"
    ELSE IF EqIgnoreCase(decl, <<"v", "i", "s", "u", "a", "l", "b", "a", "s", "i", "c">>) THEN "vb"
    ELSE "txt"
ExpectedExtension(stage) ==
    IF DeclaredLanguages(stage) = <<>> THEN "txt"
    ELSE MappedExtension(DeclaredLanguages(stage)[1])
ExpectedName(stage) == IF stage.name = NoAttr THEN "UnnamedStage" ELSE stage.name
Unknown == <<"u", "n", "k", "n", "o", "w", "n">>

\* C4: for a stage that declares one language, the extension is cs, ps1 or vb
\* when the language equals csharp, powershell or visualbasic with the case of
\* letters ignored, and txt for any other language; a stage without a language
\* element is classified 'unknown' and gets txt; every file written for the
\* stage has that one extension.
C4_ExtensionMapping ==
    Processed >= 1 =>
        LET stage == Stages[Processed]
            decl == DeclaredLanguages(stage)
        IN  /\ decl = <<>> => language = Unknown /\ file_extension = "txt"
            /\ Len(decl) = 1 => file_extension = MappedExtension(decl[1])
            /\ Len(decl) <= 1 =>
                   \A k \in 1..Len(log) :
                       log[k].stage = Processed =>
                           log[k].name = stage_name \o "_" \o ToString(log[k].idx)
                                             \o "." \o ExpectedExtension(stage)

\* A stage that declares CSharp, in mixed case, and has had two files written,
\* both .cs.
C4_Witness ==
    /\ pc = "collect"
    /\ Processed = 1
    /\ DeclaredLanguages(Stages[1]) = <<CSharp>>
    /\ file_extension = "cs"
    /\ Len(log) = 2
    /\ log[1].name = "Main_1.cs"
    /\ log[2].name = "Main_2.cs"

\* C9: a missing name, a missing language element and missing code blocks are
\* no errors.  Extraction does not fail; a stage without a name attribute is
\* named 'UnnamedStage'; a stage without a language element is classified
\* 'unknown'; a stage without code blocks has no file written; the stages are
\* handled in document order and every code block of every stage is written.
C9_GapsAreNoErrors ==
    /\ pc # "failed"
    /\ Processed >= 1 =>
           LET stage == Stages[Processed]
           IN  /\ stage.name = NoAttr => stage_name = "UnnamedStage"
               /\ DeclaredLanguages(stage) = <<>> => language = Unknown
    /\ \A a, b \in 1..Len(log) : a < b => log[a].stage <= log[b].stage
    /\ pc = "collect" =>
           \A k \in 1..Len(Stages) :
               /\ SourceBlocks(Stages[k]) = <<>> => \A e \in 1..Len(log) : log[e].stage # k
               /\ \A i \in 1..Len(SourceBlocks(Stages[k])) :
                      \E e \in 1..Len(log) :
                          /\ log[e].stage = k /\ log[e].idx = i
                          /\ log[e].name \in DOMAIN fs

\* A first stage without name, language and code blocks, and a second stage
\* whose file is written after it.
C9_Witness ==
    /\ pc = "collect"
    /\ Len(Stages) = 2
    /\ Stages[1] = [name |-> NoAttr, children |-> <<>>]
    /\ Len(log) = 1
    /\ log[1].stage = 2 /\ log[1].name = "Main_1.cs"
    /\ fs["Main_1.cs"] = <<"A">>

\* The declared language of a stage is one of the three of the mapping.
ValidLanguage(stage) ==
    /\ Len(DeclaredLanguages(stage)) = 1
    /\ MappedExtension(DeclaredLanguages(stage)[1]) # "txt"

\* C3: after extraction, for every stage with N code blocks and a valid
\* language exactly N files have been written for the stage, named
\* <stage>_1.<ext> ... <stage>_N.<ext>, and the file <stage>_i.<ext> holds the
\* i-th code block of the stage, trimmed.
C3_FilesPerStage ==
    pc = "collect" =>
        \A k \in 1..Len(Stages) :
            LET stage == Stages[k]
                blocks == SourceBlocks(stage)
            IN  ValidLanguage(stage) =>
                    /\ Cardinality({e \in 1..Len(log) : log[e].stage = k}) = Len(blocks)
                    /\ \A i \in 1..Len(blocks) :
                           LET f == ExpectedName(stage) \o "_" \o ToString(i) \o "."
                                        \o ExpectedExtension(stage)
                           IN  f \in DOMAIN fs /\ IsTrimOf(fs[f], blocks[i])

\* The file name a code block of the document derives.
DerivedName(k, i) ==
    ExpectedName(Stages[k]) \o "_" \o ToString(i) \o "." \o ExpectedExtension(Stages[k])
BlockIds ==
    UNION {{<<k, i>> : i \in 1..Len(SourceBlocks(Stages[k]))} : k \in 1..Len(Stages)}
Later(x, y) == x[1] < y[1] \/ (x[1] = y[1] /\ x[2] < y[2])

\* C10: the files are written in document order of the stages and, within a
\* stage, in ascending index; after extraction every file holds the trimmed
\* block of the last stage in document order that derives its name, and the
\* number of files written is at most the number of code blocks.
C10_LastStageWins ==
    /\ \A a, b \in 1..Len(log) :
           a < b => Later(<<log[a].stage, log[a].idx>>, <<log[b].stage, log[b].idx>>)
    /\ pc = "collect" =>
           /\ \A x \in BlockIds :
                  (\A y \in BlockIds : Later(x, y) => DerivedName(y[1], y[2]) # DerivedName(x[1], x[2]))
                      => /\ DerivedName(x[1], x[2]) \in DOMAIN fs
                         /\ IsTrimOf(fs[DerivedName(x[1], x[2])], SourceBlocks(Stages[x[1]])[x[2]])
           /\ Cardinality({log[e].name : e \in 1..Len(log)}) <= Cardinality(BlockIds)

\* C5: a second call of extract_code_from_robot_release with the same
\* arguments leaves output_dir as the first call left it: the same files with
\* the same content, whatever the directory held before the first call.
C5_SecondRunChangesNothing ==
    (run = 2 /\ pc = "collect") => (fs = fs1 /\ dirExists)

\* Two calls on a document of two stages named Main, from a directory that
\* held another Main_1.cs and a file of its own: the second stage's block is in
\* Main_1.cs after both calls.
C5_Witness ==
    /\ run = 2 /\ pc = "collect"
    /\ Len(Stages) = 2
    /\ Len(log) = 4
    /\ log[1].name = "Main_1.cs" /\ log[1].text = <<"A">>
    /\ log[2].name = "Main_1.cs" /\ log[2].text # <<"A">>
    /\ fs["Main_1.cs"] = log[2].text
    /\ fs["keep.txt"] = <<"k">>

StepOrder == <<"extract", "collect", "generate", "save">>
IsPrefix(a, b) == Len(a) <= Len(b) /\ \A i \in 1..Len(a) : a[i] = b[i]
\* The write of the log after which the file was not written again.
LastWrites == {e \in 1..Len(log) : \A e2 \in (e + 1)..Len(log) : log[e2].name # log[e].name}
\* The code file the run had last opened.
CurrentFile == stage_name \o "_" \o ToString(idx) \o "." \o file_extension

\* The part of C6 about order: the steps of main start in the order code
\* extraction, dependency collection, SBOM assembly, SBOM serialization, each
\* once; a failed run takes no further step; sbom.json is written only after
\* every code block of the document has been written.
C6_SequentialFailFast ==
    /\ IsPrefix(steps, StepOrder)
    /\ pc = "failed" => ~ENABLED Next
    /\ (\E e \in 1..Len(log) : log[e].name = SbomFile) =>
           /\ log[Len(log)].name = SbomFile
           /\ \A x \in BlockIds : \E e \in 1..Len(log) :
                  log[e].stage = x[1] /\ log[e].idx = x[2]

\* C6 as stated: main is sequential and fail-fast, and after a failure every
\* file written before it is on disk with the content written.
C6_WrittenFilesRemain ==
    /\ C6_SequentialFailFast
    /\ pc = "failed" =>
           \A e \in LastWrites :
               log[e].name \in DOMAIN fs /\ fs[log[e].name] = log[e].text

\* C6 as amended: main is sequential and fail-fast, and after a failure every
\* file written before it is on disk with the content written, except that the
\* file that was open for writing when the write failed is left empty, also
\* when an earlier stage had written it.
C6_WrittenFilesRemainButTheOpenOne ==
    /\ C6_SequentialFailFast
    /\ pc = "failed" =>
           \A e \in LastWrites :
               /\ log[e].name \in DOMAIN fs
               /\ \/ fs[log[e].name] = log[e].text
                  \/ log[e].name = CurrentFile /\ fs[log[e].name] = <<>>

\* A run that failed in the second stage, whose file the first stage had
\* written: the file is left empty.
C6_Witness ==
    /\ pc = "failed"
    /\ steps = <<"extract">>
    /\ Len(log) = 1
    /\ log[1].name = "Main_1.cs" /\ log[1].text = <<"B">>
    /\ si = 2 /\ idx = 1
    /\ fs["Main_1.cs"] = <<>>

\* C8: the handles main opens (for a code file, for the raw text, for
\* sbom.json) are released when the with block is left, on an error too: at
\* most one is open at any time, and none when main has ended or failed.
C8_HandlesReleased ==
    /\ Cardinality(handles) <= 1
    /\ pc \in {"done", "failed"} => handles = {}
    /\ pc \in {"extract", "parse", "stage", "open_code", "collect", "match",
               "generate", "generate_loop", "save", "open_sbom"} => handles = {}

\* A run that failed while reading the raw text, inside the with block.
C8_Witness ==
    /\ pc = "failed"
    /\ inputState = "not_utf8"
    /\ steps = <<"extract", "collect">>
    /\ Len(log) >= 1
    /\ handles = {}

=============================================================================
